---- MODULE Spec2Model ----
(***************************************************************************)
(* A model of the network service of the sorting application:              *)
(*   src/network_handler.py  NetworkServer, NetworkClient,                 *)
(*                           create_sorting_handler                        *)
(*   src/io_handler.py       parse_input                                   *)
(*   src/sorting.py          sort_data                                     *)
(* Text is a sequence of one-character strings, so that strip, split,      *)
(* int(), float(), str() and join are computed, not assumed.               *)
(***************************************************************************)
EXTENDS Integers, Sequences, FiniteSets, TLC

\* ------------------------------------------------------------------ text

\* The characters of the model in code-point order (str comparison is by
\* code point).  "\n" and " " are whitespace; InvalidByte stands for a byte
\* (0xFF) that is not valid UTF-8.
CharOrder ==
  << "\n", " ", "+", "-", ".", "0", "1", "2", "3", "4", "5", "6", "7", "8", "9",
     ":", "C", "E", "N", "a", "b", "c", "d", "e", "f", "g", "h", "i", "j", "k",
     "l", "m", "n", "o", "p", "q", "r", "s", "t", "u", "v", "w", "x", "y", "z" >>

InvalidByte == "<ff>"

Whitespace == {"\n", " "}

Digits == {"0", "1", "2", "3", "4", "5", "6", "7", "8", "9"}

CharCode(c) == CHOOSE i \in 1..Len(CharOrder) : CharOrder[i] = c

DigitVal(c) == CharCode(c) - CharCode("0")

DigitChar(d) == CharOrder[CharCode("0") + d]

\* bytes.decode('utf-8') raises UnicodeDecodeError on an invalid byte
DecodeFails(bytes) == \E i \in 1..Len(bytes) : bytes[i] = InvalidByte

RECURSIVE lstrip(_)
lstrip(s) == IF s # <<>> /\ Head(s) \in Whitespace THEN lstrip(Tail(s)) ELSE s

RECURSIVE rstrip(_)
rstrip(s) ==
  IF s # <<>> /\ s[Len(s)] \in Whitespace THEN rstrip(SubSeq(s, 1, Len(s) - 1)) ELSE s

\* str.strip()
strip(s) == rstrip(lstrip(s))

RECURSIVE SplitFrom(_, _, _)
SplitFrom(s, cur, acc) ==
  IF s = <<>> THEN (IF cur = <<>> THEN acc ELSE Append(acc, cur))
  ELSE IF Head(s) \in Whitespace
       THEN SplitFrom(Tail(s), <<>>, IF cur = <<>> THEN acc ELSE Append(acc, cur))
       ELSE SplitFrom(Tail(s), Append(cur, Head(s)), acc)

\* str.split(): the maximal runs of non-whitespace characters
split(s) == SplitFrom(s, <<>>, <<>>)

\* ---------------------------------------------------------------- Values

\* The number of fraction digits a Float of the model keeps: a finite Float
\* is a sign and a magnitude counted in units of 10^-FracDigits.
FracDigits == 2

RECURSIVE Pow10(_)
Pow10(k) == IF k = 0 THEN 1 ELSE 10 * Pow10(k - 1)

FracScale == Pow10(FracDigits)

AllDigits(s) == s # <<>> /\ \A i \in 1..Len(s) : s[i] \in Digits

RECURSIVE DigitsValue(_)
DigitsValue(s) ==
  IF s = <<>> THEN 0 ELSE 10 * DigitsValue(SubSeq(s, 1, Len(s) - 1)) + DigitVal(s[Len(s)])

HasSign(tok) == tok # <<>> /\ Head(tok) \in {"+", "-"}

Unsigned(tok) == IF HasSign(tok) THEN Tail(tok) ELSE tok

IsNegative(tok) == tok # <<>> /\ Head(tok) = "-"

IntValue(n) == [tag |-> "int", k |-> "fin", neg |-> n < 0, n |-> n, s |-> <<>>]

FloatValue(k, neg, n) == [tag |-> "float", k |-> k, neg |-> neg, n |-> n, s |-> <<>>]

TextValue(s) == [tag |-> "str", k |-> "fin", neg |-> FALSE, n |-> 0, s |-> s]

\* int(item) succeeds: an optional sign and decimal digits
IsIntLiteral(tok) == AllDigits(Unsigned(tok))

DotAt(s) == CHOOSE i \in 1..Len(s) : s[i] = "."

\* float(item) succeeds: nan, inf, or digits with one point and a digit on
\* at least one side of it (a literal of digits alone is an int before it is
\* tried as a float)
IsFloatLiteral(tok) ==
  LET u == Unsigned(tok) IN
    \/ u \in {<<"n", "a", "n">>, <<"i", "n", "f">>}
    \/ AllDigits(u)
    \/ /\ Cardinality({i \in 1..Len(u) : u[i] = "."}) = 1
       /\ Len(u) > 1
       /\ \A i \in 1..Len(u) : u[i] \in Digits \cup {"."}

\* the fraction digits as a number of 10^-FracDigits units (digits beyond
\* FracDigits are below the model's precision and dropped)
FracUnits(f) ==
  LET g == SubSeq(f, 1, IF Len(f) < FracDigits THEN Len(f) ELSE FracDigits)
  IN DigitsValue(g) * Pow10(FracDigits - Len(g))

ParseFloat(tok) ==
  LET u == Unsigned(tok)
      neg == IsNegative(tok)
  IN IF u = <<"n", "a", "n">> THEN FloatValue("nan", neg, 0)
     ELSE IF u = <<"i", "n", "f">> THEN FloatValue("inf", neg, 0)
     ELSE IF AllDigits(u) THEN FloatValue("fin", neg, DigitsValue(u) * FracScale)
     ELSE LET d == DotAt(u)
              ip == SubSeq(u, 1, d - 1)
              fp == SubSeq(u, d + 1, Len(u))
          IN FloatValue("fin", neg, DigitsValue(ip) * FracScale + FracUnits(fp))

ParseInt(tok) ==
  LET m == DigitsValue(Unsigned(tok)) IN IntValue(IF IsNegative(tok) THEN 0 - m ELSE m)

\* one token of parse_input: int first, float next, else kept as a string
ParseToken(tok) ==
  IF IsIntLiteral(tok) THEN ParseInt(tok)
  ELSE IF IsFloatLiteral(tok) THEN ParseFloat(tok)
  ELSE TextValue(tok)

parse_input(input_str) ==
  IF input_str = <<>> \/ strip(input_str) = <<>> THEN <<>>
  ELSE LET toks == split(input_str) IN [i \in 1..Len(toks) |-> ParseToken(toks[i])]

RECURSIVE NatStr(_)
NatStr(n) == IF n < 10 THEN <<DigitChar(n)>> ELSE Append(NatStr(n \div 10), DigitChar(n % 10))

RECURSIVE FracStr(_, _)
FracStr(units, width) ==
  IF width = 0 \/ (units = 0) THEN <<>>
  ELSE <<DigitChar(units \div Pow10(width - 1))>>
         \o FracStr(units % Pow10(width - 1), width - 1)

\* str(value): the text form join() writes
ValueStr(v) ==
  IF v.tag = "str" THEN v.s
  ELSE IF v.tag = "int" THEN (IF v.n < 0 THEN <<"-">> \o NatStr(0 - v.n) ELSE NatStr(v.n))
  ELSE (IF v.neg THEN <<"-">> ELSE <<>>) \o
       (IF v.k = "nan" THEN <<"n", "a", "n">>
        ELSE IF v.k = "inf" THEN <<"i", "n", "f">>
        ELSE LET f == FracStr(v.n % FracScale, FracDigits)
             IN NatStr(v.n \div FracScale) \o <<".">> \o (IF f = <<>> THEN <<"0">> ELSE f))

IsNumber(v) == v.tag \in {"int", "float"}

\* a < b raises TypeError exactly between a str and a number
Comparable(a, b) == IsNumber(a) = IsNumber(b)

RECURSIVE LexLess(_, _)
LexLess(s, t) ==
  IF t = <<>> THEN FALSE
  ELSE IF s = <<>> THEN TRUE
  ELSE IF Head(s) = Head(t) THEN LexLess(Tail(s), Tail(t))
  ELSE CharCode(Head(s)) < CharCode(Head(t))

\* a number on the common scale of 10^-FracDigits units
Units(v) ==
  IF v.tag = "int" THEN v.n * FracScale ELSE IF v.neg THEN 0 - v.n ELSE v.n

IsNaN(v) == v.tag = "float" /\ v.k = "nan"

IsInf(v) == v.tag = "float" /\ v.k = "inf"

\* Python's a < b on two comparable Values: every comparison with nan is False
Less(a, b) ==
  IF a.tag = "str" THEN LexLess(a.s, b.s)
  ELSE IF IsNaN(a) \/ IsNaN(b) THEN FALSE
  ELSE IF IsInf(a) THEN a.neg /\ ~(IsInf(b) /\ b.neg)
  ELSE IF IsInf(b) THEN ~b.neg
  ELSE Units(a) < Units(b)

\* ---------------------------------------------------------------- sorted

Reverse(s) == [i \in 1..Len(s) |-> s[Len(s) + 1 - i]]

\* list.sort's count_run: the length of the run that starts the list,
\* ascending (a[i] < a[i-1] never holds) or strictly descending
RECURSIVE RunEnd(_, _, _)
RunEnd(a, i, desc) ==
  IF i > Len(a) THEN Len(a)
  ELSE IF Less(a[i], a[i - 1]) = desc THEN RunEnd(a, i + 1, desc)
  ELSE i - 1

RECURSIVE BinarySearch(_, _, _, _)
BinarySearch(a, pivot, l, r) ==
  IF l >= r THEN l
  ELSE LET p == l + ((r - l) \div 2)
       IN IF Less(pivot, a[p]) THEN BinarySearch(a, pivot, l, p)
          ELSE BinarySearch(a, pivot, p + 1, r)

InsertAt(a, pos, x) == SubSeq(a, 1, pos - 1) \o <<x>> \o SubSeq(a, pos, Len(a))

\* list.sort's binarysort: a[1..start-1] is sorted; insert the rest one by one
RECURSIVE BinarySort(_, _)
BinarySort(a, start) ==
  IF start > Len(a) THEN a
  ELSE LET pivot == a[start]
           pre == SubSeq(a, 1, start - 1)
           pos == BinarySearch(pre, pivot, 1, start)
       IN BinarySort(InsertAt(pre, pos, pivot) \o SubSeq(a, start + 1, Len(a)), start + 1)

\* sorted(data) on a list whose comparisons do not raise (a list shorter
\* than the merge threshold: one run, extended by binary insertion)
sorted(a) ==
  IF Len(a) < 2 THEN a
  ELSE LET desc == Less(a[2], a[1])
           n == RunEnd(a, 3, desc)
           run == SubSeq(a, 1, n)
           b == (IF desc THEN Reverse(run) ELSE run) \o SubSeq(a, n + 1, Len(a))
       IN BinarySort(b, n + 1)

\* sorted(data) raises TypeError: the sort of a list of two or more items
\* compares every item with another one, so it meets a str/number pair
\* exactly when the list holds both
SortRaises(a) ==
  Len(a) >= 2 /\ \E i, j \in 1..Len(a) : ~Comparable(a[i], a[j])

\* what a call gives when it raises TypeError instead of returning a list
TypeErrorRaised == << [tag |-> "TypeError", k |-> "fin", neg |-> FALSE, n |-> 0, s |-> <<>>] >>

\* Faulty variant of sort_data: no "except TypeError" clause, so that the
\* TypeError of sorted() leaves the function
UncaughtTypeError(data) ==
  IF data = <<>> THEN <<>>
  ELSE IF SortRaises(data) THEN TypeErrorRaised
  ELSE sorted(data)

sort_data(data) ==
  IF data = <<>> THEN <<>>
  ELSE IF SortRaises(data) THEN data
  ELSE sorted(data)

\* ' '.join(map(str, values))
RECURSIVE JoinStr(_)
JoinStr(vals) ==
  IF vals = <<>> THEN <<>>
  ELSE IF Len(vals) = 1 THEN ValueStr(vals[1])
  ELSE ValueStr(vals[1]) \o <<" ">> \o JoinStr(Tail(vals))

NoValidData ==
  << "E", "r", "r", "o", "r", ":", " ", "N", "o", " ", "v", "a", "l", "i", "d", " ",
     "d", "a", "t", "a", " ", "t", "o", " ", "s", "o", "r", "t" >>

\* f"Error processing data: {e}", the text of e left abstract
ErrorProcessing ==
  << "E", "r", "r", "o", "r", " ", "p", "r", "o", "c", "e", "s", "s", "i", "n", "g", " ",
     "d", "a", "t", "a", ":", " ", "<str(e)>" >>

\* return ' '.join(map(str, sorted_data)), or the except clause's string
\* when sort_function raised
SortedResponse(sorted_data) ==
  IF sorted_data = TypeErrorRaised THEN ErrorProcessing ELSE JoinStr(sorted_data)

\* the handler create_sorting_handler(sort_data, parse_input) returns
sorting_handler(input_data) ==
  LET data == parse_input(input_data)
  IN IF data = <<>> THEN NoValidData ELSE SortedResponse(sort_data(data))

EchoPrefix == <<"E", "c", "h", "o", ":", " ">>

echo_handler(data) == EchoPrefix \o data


\* -------------------------------------------------------------- bounds

\* TCP connections (client endpoints) of a run
MaxConn == 2

\* connections of raw peers in a run
MaxPeers == 1

\* frames a raw peer writes on one connection
MaxSends == 2

\* tokens of an input handed to the sorting handler directly
MaxTokens == 3

\* recv(1024): the read buffer limit of the server and of the client
RecvLimit == 1024

\* listen(5)
Backlog == 5

Conns == 1..MaxConn

Workers == 1..MaxConn

Min(a, b) == IF a < b THEN a ELSE b

\* --------------------------------------------------------- wire texts

R312 == << "3", " ", "1", " ", "2" >>

RZebra == << "z", "e", "b", "r", "a", " ", "a", "p", "p", "l", "e" >>

RPadded == << " ", "b", " ", "a", "\n" >>

RBlank == << " ", "\n" >>

RInvalid == << "a", InvalidByte >>

\* a Text token and an Integer token
RMixed == << "b", " ", "0", "3" >>

\* the data a NetworkClient is asked to send
ClientRequests == {R312, RZebra, RBlank}

\* the frames a raw TCP peer writes
PeerFrames == {R312, RPadded, RBlank, RInvalid, RMixed}

ErrorPrefix == << "E", "r", "r", "o", "r", ":", " " >>

CannotConnectText == << "C", "a", "n", "n", "o", "t", " ", "c", "o", "n", "n", "e", "c", "t" >>

ToServerAt == << " ", "t", "o", " ", "s", "e", "r", "v", "e", "r", " ", "a", "t", " " >>

HostPort == << "l", "o", "c", "a", "l", "h", "o", "s", "t", ":", "8", "0", "8", "0" >>

TimeoutText ==
  << "C", "o", "n", "n", "e", "c", "t", "i", "o", "n", " ", "t", "i", "m", "e", "o", "u", "t",
     " ", "a", "f", "t", "e", "r", " ", "5", " ", "s", "e", "c", "o", "n", "d", "s" >>

\* str(e) of a fault that is neither a refusal nor a timeout
ResetText == << "r", "e", "s", "e", "t" >>

\* the value of a call that raised instead of returning
Raised == << "<raised>" >>

\* --------------------------------------------------------------- state

VARIABLES
  is_running,      \* NetworkServer.is_running
  server_socket,   \* NetworkServer.server_socket: "None", "unbound", "listening",
                   \* "lingering" (closed under a thread blocked in accept), "closed"
  client_handler,  \* NetworkServer.client_handler: "None", "echo", "sort"
  spc,             \* where the thread that called start_server() is
  xpc,             \* where a thread that calls stop_server() from outside is
  backlog,         \* the listening socket's queue of established connections
  nworkers,        \* threads started by the accept loop
  wpc,             \* each worker thread's position in handle_client_connection
  wsock,           \* each worker's client_socket argument (a connection, 0: none)
  wdata,           \* each worker's local data
  wresp,           \* each worker's local response
  cstate,          \* the client end of each connection: "none", "open", "closed"
  sstate,          \* the server end: "none", "backlog", "open", "closed", "dropped"
  rst,             \* the connection was reset
  to_srv,          \* bytes written by the client and not yet read by the server
  to_cli,          \* bytes written by the server and not yet read by the client
  nclose,          \* close() calls on the accepted socket of each connection
  log,             \* what was done on each accepted socket, by which worker
  ckind,           \* who uses a connection: "none", "send_data", "probe", "peer"
  cpc,             \* where the client's call is ("ret", "except": it has returned)
  creq,            \* send_data's data argument
  cres,            \* send_data's return value
  tc_result,       \* test_connection's return value: "none", "True", "False"
  nsent,           \* frames a raw peer has written
  h_pc,            \* where a direct call of the sorting handler is
  h_input,         \* its input_data
  h_data,          \* its data
  h_result,        \* its return value
  h_sort_called    \* whether it has called sort_function

srvvars == <<is_running, server_socket, client_handler, spc, xpc, backlog, nworkers>>

wrkvars == <<wpc, wsock, wdata, wresp>>

connvars == <<cstate, sstate, rst, to_srv, to_cli, nclose, log>>

clivars == <<ckind, cpc, creq, cres, tc_result, nsent>>

hvars == <<h_pc, h_input, h_data, h_result, h_sort_called>>

netvars == <<srvvars, wrkvars, connvars, clivars>>

vars == <<netvars, hvars>>

NetInit ==
  /\ is_running = FALSE
  /\ server_socket = "None"
  /\ client_handler = "None"
  /\ spc = "idle"
  /\ xpc = "idle"
  /\ backlog = <<>>
  /\ nworkers = 0
  /\ wpc = [w \in Workers |-> "unborn"]
  /\ wsock = [w \in Workers |-> 0]
  /\ wdata = [w \in Workers |-> <<>>]
  /\ wresp = [w \in Workers |-> <<>>]
  /\ cstate = [c \in Conns |-> "none"]
  /\ sstate = [c \in Conns |-> "none"]
  /\ rst = [c \in Conns |-> FALSE]
  /\ to_srv = [c \in Conns |-> <<>>]
  /\ to_cli = [c \in Conns |-> <<>>]
  /\ nclose = [c \in Conns |-> 0]
  /\ log = [c \in Conns |-> <<>>]
  /\ ckind = [c \in Conns |-> "none"]
  /\ cpc = [c \in Conns |-> "idle"]
  /\ creq = [c \in Conns |-> <<>>]
  /\ cres = [c \in Conns |-> <<>>]
  /\ tc_result = [c \in Conns |-> "none"]
  /\ nsent = [c \in Conns |-> 0]

HandlerOff ==
  /\ h_pc = "off"
  /\ h_input = <<>>
  /\ h_data = <<>>
  /\ h_result = <<>>
  /\ h_sort_called = FALSE

Init == NetInit /\ HandlerOff

\* an entry of log: the operation, the worker thread that did it, the bytes
\* on the wire and the text (the decoded, stripped data; the response)
Ev(op, w, bytes, text) == [op |-> op, w |-> w, bytes |-> bytes, text |-> text]

\* connections to the server's address are established: the socket listens,
\* or it was closed while a thread was blocked in accept() on it, and the
\* operating system keeps it listening until that accept() returns
Listening == server_socket \in {"listening", "lingering"}

\* the listening socket is gone: the connections queued on it are reset,
\* except the one (keep, 0 for none) that accept() is returning
DropQueued(keep) ==
  /\ backlog' = <<>>
  /\ rst' = [c \in Conns |-> rst[c] \/ (sstate[c] = "backlog" /\ c # keep)]
  /\ sstate' = [c \in Conns |-> IF c = keep THEN "open"
                                ELSE IF sstate[c] = "backlog" THEN "dropped"
                                ELSE sstate[c]]

\* ------------------------------------------------------- NetworkServer

\* set_client_handler(handler), before start_server()
SetClientHandler(h) ==
  /\ spc = "idle"
  /\ client_handler = "None"
  /\ client_handler' = h
  /\ UNCHANGED <<is_running, server_socket, spc, xpc, backlog, nworkers>>
  /\ UNCHANGED <<wrkvars, connvars, clivars, hvars>>

\* start_server() is called
StartServer ==
  /\ spc = "idle"
  /\ spc' = "bind"
  /\ UNCHANGED <<is_running, server_socket, client_handler, xpc, backlog, nworkers>>
  /\ UNCHANGED <<wrkvars, connvars, clivars, hvars>>

\* Faulty variant of AfterBindFails: the error of bind() swallowed, the
\* function going on to its next statement
BindErrorIgnored == "setrun"

\* bind() raising leaves the try block: except Exception reports it, and
\* the finally clause follows
AfterBindFails == "finally"

\* socket(), setsockopt(), bind(), listen(5): bind raises OSError when the
\* address is in use or not permitted
BindListen ==
  /\ spc = "bind"
  /\ \/ /\ server_socket' = "listening"
        /\ spc' = "setrun"
     \/ /\ server_socket' = "unbound"
        /\ spc' = AfterBindFails
  /\ UNCHANGED <<is_running, client_handler, xpc, backlog, nworkers>>
  /\ UNCHANGED <<wrkvars, connvars, clivars, hvars>>

\* self.is_running = True
SetRunning ==
  /\ spc = "setrun"
  /\ is_running' = TRUE
  /\ spc' = "loop"
  /\ UNCHANGED <<server_socket, client_handler, xpc, backlog, nworkers>>
  /\ UNCHANGED <<wrkvars, connvars, clivars, hvars>>

\* while self.is_running:
LoopTest ==
  /\ spc = "loop"
  /\ spc' = IF is_running THEN "accept" ELSE "finally"
  /\ UNCHANGED <<is_running, server_socket, client_handler, xpc, backlog, nworkers>>
  /\ UNCHANGED <<wrkvars, connvars, clivars, hvars>>

\* the thread the accept loop starts for an accepted socket
SpawnWorker(w, c) ==
  /\ wpc' = [wpc EXCEPT ![w] = "test"]
  /\ wsock' = [wsock EXCEPT ![w] = c]

\* accept() returns the oldest established connection and a worker thread is
\* started for it; accept() raises OSError on a closed socket, or on an
\* operating-system fault.  The return of an accept() that was blocked on
\* a socket closed meanwhile releases that socket.
Accept ==
  /\ spc = "accept"
  /\ \/ /\ Listening
        /\ backlog # <<>>
        /\ nworkers < MaxConn
        /\ SpawnWorker(nworkers + 1, Head(backlog))
        /\ nworkers' = nworkers + 1
        /\ spc' = "loop"
        /\ IF server_socket = "lingering"
           THEN server_socket' = "closed" /\ DropQueued(Head(backlog))
           ELSE /\ backlog' = Tail(backlog)
                /\ sstate' = [sstate EXCEPT ![Head(backlog)] = "open"]
                /\ UNCHANGED <<server_socket, rst>>
     \/ /\ server_socket = "closed"
        /\ spc' = "finally"
        /\ UNCHANGED <<server_socket, backlog, rst, sstate, nworkers, wpc, wsock>>
     \/ /\ Listening
        /\ spc' = "finally"
        /\ IF server_socket = "lingering"
           THEN server_socket' = "closed" /\ DropQueued(0)
           ELSE UNCHANGED <<server_socket, backlog, rst, sstate>>
        /\ UNCHANGED <<nworkers, wpc, wsock>>
  /\ UNCHANGED <<is_running, client_handler, xpc, wdata, wresp>>
  /\ UNCHANGED <<cstate, to_srv, to_cli, nclose, log>>
  /\ UNCHANGED <<clivars, hvars>>

\* KeyboardInterrupt in the thread running start_server()
Interrupt ==
  /\ spc \in {"loop", "accept"}
  /\ spc' = "finally"
  /\ IF server_socket = "lingering"
     THEN server_socket' = "closed" /\ DropQueued(0)
     ELSE UNCHANGED <<server_socket, backlog, rst, sstate>>
  /\ UNCHANGED <<is_running, client_handler, xpc, nworkers>>
  /\ UNCHANGED <<wrkvars, cstate, to_srv, to_cli, nclose, log, clivars, hvars>>

\* Variant of CloseListener for comparison: close() ending the socket at
\* once, whatever another thread is doing with it
ClosesAtOnce ==
  /\ server_socket' = IF server_socket = "None" THEN "None" ELSE "closed"
  /\ DropQueued(0)

\* server_socket.close(): the socket stops listening and the connections
\* still queued on it are reset; a later accept() on it raises OSError.
\* When another thread is blocked in accept() on the socket, close() only
\* releases the descriptor: where the operating system does not wake that
\* thread (Linux), the socket goes on listening until its accept() returns.
CloseListener ==
  \/ /\ server_socket' = IF server_socket = "None" THEN "None" ELSE "closed"
     /\ DropQueued(0)
  \/ /\ spc = "accept"
     /\ server_socket = "listening"
     /\ server_socket' = "lingering"
     /\ UNCHANGED <<backlog, rst, sstate>>

\* stop_server(), first statement: self.is_running = False
StopSetFlag == is_running' = FALSE

\* finally: self.stop_server()
FinallyStop ==
  /\ \/ /\ spc = "finally"
        /\ StopSetFlag
        /\ spc' = "fclose"
        /\ UNCHANGED <<server_socket, backlog, rst, sstate>>
     \/ /\ spc = "fclose"
        /\ CloseListener
        /\ spc' = "done"
        /\ UNCHANGED is_running
  /\ UNCHANGED <<client_handler, xpc, nworkers>>
  /\ UNCHANGED <<wrkvars, cstate, to_srv, to_cli, nclose, log, clivars, hvars>>

\* stop_server() called by another thread on a server that listens
ExternalStop ==
  /\ \/ /\ xpc = "idle"
        /\ Listening
        /\ StopSetFlag
        /\ xpc' = "close"
        /\ UNCHANGED <<server_socket, backlog, rst, sstate>>
     \/ /\ xpc = "close"
        /\ CloseListener
        /\ xpc' = "done"
        /\ UNCHANGED is_running
  /\ UNCHANGED <<client_handler, spc, nworkers>>
  /\ UNCHANGED <<wrkvars, cstate, to_srv, to_cli, nclose, log, clivars, hvars>>

\* ------------------------------------------- handle_client_connection

\* Faulty variant of WorkerSocket: the socket kept where the threads share
\* it, so that every worker uses the first worker's
SharedSocket(w) == wsock[1]

\* the socket a worker reads, writes and closes: its client_socket argument
WorkerSocket(w) == wsock[w]

\* client_socket.recv(1024): up to RecvLimit of the bytes that have arrived
RecvBytes(stream) == SubSeq(stream, 1, Min(Len(stream), RecvLimit))

RecvRest(stream) == SubSeq(stream, Min(Len(stream), RecvLimit) + 1, Len(stream))

\* self.client_handler(data) if self.client_handler else f"Echo: {data}"
HandlerResponse(data) ==
  IF client_handler = "sort" THEN sorting_handler(data)
  ELSE IF client_handler = "echo" THEN echo_handler(data)
  ELSE EchoPrefix \o data

\* Faulty variant of ResponseFrame: the response written without its newline
BareResponse(response) == response

\* f"{response}\n".encode('utf-8')
ResponseFrame(response) == response \o <<"\n">>

\* Faulty variant of AfterRecv: the loop without "if not data: break"
AlwaysProcess(data) == "process"

\* if not data: break
AfterRecv(data) == IF data = <<>> THEN "finally" ELSE "process"

\* Faulty variant of AfterRaise: a try statement without the finally clause
NoFinally == "done"

\* an exception leaves the loop through its except clause into finally
AfterRaise == "finally"

\* Faulty variant of AfterSend: the handler run again on the data already
\* answered, without a new read
RepeatHandler == "process"

\* after the send the loop body is over: back to "while self.is_running"
\* and then to the next recv
AfterSend == "test"

\* Faulty variant of LoopCondition: while True
LoopForever == TRUE

\* the condition of the worker's while statement
LoopCondition == is_running

\* while self.is_running:
WTest(w) ==
  /\ wpc[w] = "test"
  /\ wpc' = [wpc EXCEPT ![w] = IF LoopCondition THEN "recv" ELSE "finally"]
  /\ UNCHANGED <<wsock, wdata, wresp>>
  /\ UNCHANGED <<srvvars, connvars, clivars, hvars>>

\* data = client_socket.recv(1024).decode('utf-8').strip(); if not data: break
\* recv returns the bytes that have arrived, b'' at the end of the stream,
\* and blocks while nothing has arrived
WRecv(w) ==
  /\ wpc[w] = "recv"
  /\ LET c == WorkerSocket(w) IN
       /\ ~rst[c]
       /\ \/ /\ to_srv[c] # <<>>
             /\ ~DecodeFails(RecvBytes(to_srv[c]))
          \/ /\ to_srv[c] = <<>>
             /\ cstate[c] = "closed"
       /\ LET data == strip(RecvBytes(to_srv[c])) IN
            /\ to_srv' = [to_srv EXCEPT ![c] = RecvRest(@)]
            /\ wdata' = [wdata EXCEPT ![w] = data]
            /\ wpc' = [wpc EXCEPT ![w] = AfterRecv(data)]
            /\ log' = [log EXCEPT ![c] = Append(@, Ev("recv", w, RecvBytes(to_srv[c]), data))]
  /\ UNCHANGED <<wsock, wresp, cstate, sstate, rst, to_cli, nclose>>
  /\ UNCHANGED <<srvvars, clivars, hvars>>

\* Faulty variant of RunningAfterFault: an except clause that stops the
\* server
FaultStopsServer == FALSE

\* except ConnectionResetError / except Exception: the clauses only print;
\* the server's running flag is left as it is
RunningAfterFault == is_running

\* the same statement raising ConnectionResetError: recv on a connection
\* that was reset
WRecvReset(w) ==
  /\ wpc[w] = "recv"
  /\ rst[WorkerSocket(w)]
  /\ log' = [log EXCEPT ![WorkerSocket(w)] = Append(@, Ev("reset", w, <<>>, <<>>))]
  /\ wpc' = [wpc EXCEPT ![w] = AfterRaise]
  /\ is_running' = RunningAfterFault
  /\ UNCHANGED <<wsock, wdata, wresp, cstate, sstate, rst, to_srv, to_cli, nclose>>
  /\ UNCHANGED <<server_socket, client_handler, spc, xpc, backlog, nworkers>>
  /\ UNCHANGED <<clivars, hvars>>

\* the same statement raising UnicodeDecodeError: decode on bytes that are
\* not UTF-8
WRecvUndecodable(w) ==
  /\ wpc[w] = "recv"
  /\ LET c == WorkerSocket(w) IN
       /\ ~rst[c]
       /\ to_srv[c] # <<>>
       /\ DecodeFails(RecvBytes(to_srv[c]))
       /\ to_srv' = [to_srv EXCEPT ![c] = RecvRest(@)]
       /\ log' = [log EXCEPT ![c] =
                    Append(@, Ev("undecodable", w, RecvBytes(to_srv[c]), <<>>))]
  /\ wpc' = [wpc EXCEPT ![w] = AfterRaise]
  /\ is_running' = RunningAfterFault
  /\ UNCHANGED <<wsock, wdata, wresp, cstate, sstate, rst, to_cli, nclose>>
  /\ UNCHANGED <<server_socket, client_handler, spc, xpc, backlog, nworkers>>
  /\ UNCHANGED <<clivars, hvars>>

\* data = client_socket.recv(1024).decode('utf-8').strip() raising
WRecvRaise(w) == WRecvReset(w) \/ WRecvUndecodable(w)

\* response = the handler's result for data
WProcess(w) ==
  /\ wpc[w] = "process"
  /\ wresp' = [wresp EXCEPT ![w] = HandlerResponse(wdata[w])]
  /\ wpc' = [wpc EXCEPT ![w] = "send"]
  /\ log' = [log EXCEPT ![WorkerSocket(w)] = Append(@, Ev("handler", w, <<>>, wdata[w]))]
  /\ UNCHANGED <<wsock, wdata, cstate, sstate, rst, to_srv, to_cli, nclose>>
  /\ UNCHANGED <<srvvars, clivars, hvars>>

\* client_socket.send(f"{response}\n".encode('utf-8')); a write to a peer
\* that has closed is accepted and answered by a reset
WSend(w) ==
  /\ wpc[w] = "send"
  /\ LET c == WorkerSocket(w) IN
       /\ ~rst[c]
       /\ to_cli' = [to_cli EXCEPT ![c] = @ \o ResponseFrame(wresp[w])]
       /\ rst' = [rst EXCEPT ![c] = cstate[c] = "closed"]
       /\ log' = [log EXCEPT ![c] =
                    Append(@, Ev("send", w, ResponseFrame(wresp[w]), wresp[w]))]
  /\ wpc' = [wpc EXCEPT ![w] = AfterSend]
  /\ UNCHANGED <<wsock, wdata, wresp, cstate, sstate, to_srv, nclose>>
  /\ UNCHANGED <<srvvars, clivars, hvars>>

\* the same statement raising ConnectionResetError on a reset connection
WSendRaise(w) ==
  /\ wpc[w] = "send"
  /\ rst[WorkerSocket(w)]
  /\ log' = [log EXCEPT ![WorkerSocket(w)] = Append(@, Ev("reset", w, <<>>, <<>>))]
  /\ wpc' = [wpc EXCEPT ![w] = AfterRaise]
  /\ is_running' = RunningAfterFault
  /\ UNCHANGED <<wsock, wdata, wresp, cstate, sstate, rst, to_srv, to_cli, nclose>>
  /\ UNCHANGED <<server_socket, client_handler, spc, xpc, backlog, nworkers>>
  /\ UNCHANGED <<clivars, hvars>>

\* finally: client_socket.close(); bytes left unread make the close a reset
WClose(w) ==
  /\ wpc[w] = "finally"
  /\ LET c == WorkerSocket(w) IN
       /\ nclose' = [nclose EXCEPT ![c] = @ + 1]
       /\ sstate' = [sstate EXCEPT ![c] = "closed"]
       /\ rst' = [rst EXCEPT ![c] = @ \/ to_srv[c] # <<>>]
       /\ log' = [log EXCEPT ![c] = Append(@, Ev("close", w, <<>>, <<>>))]
  /\ wpc' = [wpc EXCEPT ![w] = "done"]
  /\ UNCHANGED <<wsock, wdata, wresp, cstate, to_srv, to_cli>>
  /\ UNCHANGED <<srvvars, clivars, hvars>>

\* ------------------------------------------------------- NetworkClient

\* connections are numbered in the order their clients open them
NewConnection(c) == ckind[c] = "none" /\ \A d \in Conns : d < c => ckind[d] # "none"

\* the exceptions a step of send_data raises
Faults == {"ConnectionRefusedError", "socket.timeout", "ConnectionResetError"}

\* Faulty variant of SendDataExcept: no "except ConnectionRefusedError"
\* clause, so that a refusal is reported by the last clause
NoRefusedClause(fault) ==
  IF fault = "socket.timeout" THEN ErrorPrefix \o TimeoutText
  ELSE IF fault \in Faults THEN ErrorPrefix \o ResetText
  ELSE Raised

\* Faulty variant of SendDataExcept: no "except Exception" clause
NoCatchAll(fault) ==
  IF fault = "ConnectionRefusedError"
  THEN ErrorPrefix \o CannotConnectText \o ToServerAt \o HostPort
  ELSE IF fault = "socket.timeout" THEN ErrorPrefix \o TimeoutText
  ELSE Raised

\* the except clauses of send_data: what the call returns for an exception
\* (Raised: no clause catches it)
SendDataExcept(fault) ==
  IF fault = "ConnectionRefusedError"
  THEN ErrorPrefix \o CannotConnectText \o ToServerAt \o HostPort
  ELSE IF fault = "socket.timeout" THEN ErrorPrefix \o TimeoutText
  ELSE IF fault \in Faults THEN ErrorPrefix \o ResetText
  ELSE Raised

\* client_socket = socket.socket(...): the socket the call opens
SdOpenSocket(c) == cstate' = [cstate EXCEPT ![c] = "open"]

\* the socket close() of send_data's success path
SdCloseSocket(c) == cstate' = [cstate EXCEPT ![c] = "closed"]

\* the socket on a return from an except clause: no statement closes it; it
\* stays open until the interpreter finalizes the unreferenced object, which
\* may be as the call returns or later
SdExceptSocket(c) == \E st \in {"open", "closed"} : cstate' = [cstate EXCEPT ![c] = st]

\* send_data(data): socket(), settimeout(timeout), connect((host, port)):
\* refused when nothing listens there, timed out when the listener does not
\* answer in time
SdConnect(c, data) ==
  /\ NewConnection(c)
  /\ ckind' = [ckind EXCEPT ![c] = "send_data"]
  /\ creq' = [creq EXCEPT ![c] = data]
  /\ \/ /\ Listening
        /\ Len(backlog) < Backlog
        /\ backlog' = Append(backlog, c)
        /\ sstate' = [sstate EXCEPT ![c] = "backlog"]
        /\ cpc' = [cpc EXCEPT ![c] = "send"]
        /\ SdOpenSocket(c)
        /\ UNCHANGED cres
     \/ /\ ~Listening
        /\ cres' = [cres EXCEPT ![c] = SendDataExcept("ConnectionRefusedError")]
        /\ cpc' = [cpc EXCEPT ![c] = "except"]
        /\ SdExceptSocket(c)
        /\ UNCHANGED <<backlog, sstate>>
     \/ /\ Listening
        /\ cres' = [cres EXCEPT ![c] = SendDataExcept("socket.timeout")]
        /\ cpc' = [cpc EXCEPT ![c] = "except"]
        /\ SdExceptSocket(c)
        /\ UNCHANGED <<backlog, sstate>>
  /\ UNCHANGED <<tc_result, nsent, rst, to_srv, to_cli, nclose, log>>
  /\ UNCHANGED <<is_running, server_socket, client_handler, spc, xpc, nworkers>>
  /\ UNCHANGED <<wrkvars, hvars>>

\* client_socket.send(data.encode('utf-8')); a write to a server end that
\* has closed is answered by a reset, which has or has not arrived when the
\* client reads next
SdSend(c) ==
  /\ ckind[c] = "send_data"
  /\ cpc[c] = "send"
  /\ \/ /\ rst[c]
        /\ cres' = [cres EXCEPT ![c] = SendDataExcept("ConnectionResetError")]
        /\ cpc' = [cpc EXCEPT ![c] = "except"]
        /\ SdExceptSocket(c)
        /\ UNCHANGED <<to_srv, rst>>
     \/ /\ ~rst[c]
        /\ IF sstate[c] = "closed"
           THEN /\ \E arrived \in BOOLEAN : rst' = [rst EXCEPT ![c] = arrived]
                /\ UNCHANGED to_srv
           ELSE to_srv' = [to_srv EXCEPT ![c] = @ \o creq[c]] /\ UNCHANGED rst
        /\ cpc' = [cpc EXCEPT ![c] = "recv"]
        /\ UNCHANGED <<cres, cstate>>
  /\ UNCHANGED <<ckind, creq, tc_result, nsent, sstate, to_cli, nclose, log>>
  /\ UNCHANGED <<srvvars, wrkvars, hvars>>

\* Faulty variant of ResponseAtEof: the end of the stream turned into a
\* failure string
EofReported == ErrorPrefix \o ResetText

\* recv() at the orderly end of the stream returns b'': decoded and
\* stripped, the empty string
ResponseAtEof == strip(<<>>)

\* response = client_socket.recv(1024).decode('utf-8').strip()
SdRecv(c) ==
  /\ ckind[c] = "send_data"
  /\ cpc[c] = "recv"
  /\ \/ /\ to_cli[c] # <<>>
        /\ cres' = [cres EXCEPT ![c] = strip(RecvBytes(to_cli[c]))]
        /\ to_cli' = [to_cli EXCEPT ![c] = RecvRest(@)]
        /\ cpc' = [cpc EXCEPT ![c] = "close"]
        /\ UNCHANGED cstate
     \/ /\ to_cli[c] = <<>>
        /\ ~rst[c]
        /\ sstate[c] = "closed"
        /\ cres' = [cres EXCEPT ![c] = ResponseAtEof]
        /\ cpc' = [cpc EXCEPT ![c] = "close"]
        /\ UNCHANGED <<to_cli, cstate>>
     \/ /\ to_cli[c] = <<>>
        /\ rst[c]
        /\ cres' = [cres EXCEPT ![c] = SendDataExcept("ConnectionResetError")]
        /\ cpc' = [cpc EXCEPT ![c] = "except"]
        /\ SdExceptSocket(c)
        /\ UNCHANGED to_cli
     \/ /\ to_cli[c] = <<>>
        /\ cres' = [cres EXCEPT ![c] = SendDataExcept("socket.timeout")]
        /\ cpc' = [cpc EXCEPT ![c] = "except"]
        /\ SdExceptSocket(c)
        /\ UNCHANGED to_cli
  /\ UNCHANGED <<ckind, creq, tc_result, nsent, sstate, rst, to_srv, nclose, log>>
  /\ UNCHANGED <<srvvars, wrkvars, hvars>>

\* client_socket.close(); return response
SdClose(c) ==
  /\ ckind[c] = "send_data"
  /\ cpc[c] = "close"
  /\ SdCloseSocket(c)
  /\ cpc' = [cpc EXCEPT ![c] = "ret"]
  /\ UNCHANGED <<ckind, creq, cres, tc_result, nsent>>
  /\ UNCHANGED <<sstate, rst, to_srv, to_cli, nclose, log>>
  /\ UNCHANGED <<srvvars, wrkvars, hvars>>

\* connect_ex() returns 0 exactly when the connection was established
ConnectEx(established) == IF established THEN 0 ELSE 111

\* test_connection(): return connect_ex(...) == 0, the socket closed at once
TestConnection(c) ==
  /\ NewConnection(c)
  /\ ckind' = [ckind EXCEPT ![c] = "probe"]
  /\ cpc' = [cpc EXCEPT ![c] = "ret"]
  /\ cstate' = [cstate EXCEPT ![c] = "closed"]
  /\ \/ /\ Listening
        /\ Len(backlog) < Backlog
        /\ backlog' = Append(backlog, c)
        /\ sstate' = [sstate EXCEPT ![c] = "backlog"]
        /\ tc_result' = [tc_result EXCEPT ![c] =
                           IF ConnectEx(TRUE) = 0 THEN "True" ELSE "False"]
     \/ /\ tc_result' = [tc_result EXCEPT ![c] =
                           IF ConnectEx(FALSE) = 0 THEN "True" ELSE "False"]
        /\ UNCHANGED <<backlog, sstate>>
  /\ UNCHANGED <<creq, cres, nsent, rst, to_srv, to_cli, nclose, log>>
  /\ UNCHANGED <<is_running, server_socket, client_handler, spc, xpc, nworkers>>
  /\ UNCHANGED <<wrkvars, hvars>>

\* ------------------------------------------------- a raw TCP peer
\* (the server serves any TCP client, not only NetworkClient: one that
\* keeps its connection and writes several frames, closes, or resets)

\* a peer opens one of the first n connections of the run
PeerConnectWithin(c, n) ==
  /\ NewConnection(c)
  /\ c <= n
  /\ Listening
  /\ Len(backlog) < Backlog
  /\ ckind' = [ckind EXCEPT ![c] = "peer"]
  /\ cpc' = [cpc EXCEPT ![c] = "peer"]
  /\ cstate' = [cstate EXCEPT ![c] = "open"]
  /\ backlog' = Append(backlog, c)
  /\ sstate' = [sstate EXCEPT ![c] = "backlog"]
  /\ UNCHANGED <<creq, cres, tc_result, nsent, rst, to_srv, to_cli, nclose, log>>
  /\ UNCHANGED <<is_running, server_socket, client_handler, spc, xpc, nworkers>>
  /\ UNCHANGED <<wrkvars, hvars>>

PeerConnect(c) == PeerConnectWithin(c, MaxPeers)

PeerSend(c, frame) ==
  /\ ckind[c] = "peer"
  /\ cstate[c] = "open"
  /\ ~rst[c]
  /\ nsent[c] < MaxSends
  /\ nsent' = [nsent EXCEPT ![c] = @ + 1]
  /\ IF sstate[c] = "closed"
     THEN rst' = [rst EXCEPT ![c] = TRUE] /\ UNCHANGED to_srv
     ELSE to_srv' = [to_srv EXCEPT ![c] = @ \o frame] /\ UNCHANGED rst
  /\ UNCHANGED <<ckind, cpc, creq, cres, tc_result, cstate, sstate, to_cli, nclose, log>>
  /\ UNCHANGED <<srvvars, wrkvars, hvars>>

PeerClose(c) ==
  /\ ckind[c] = "peer"
  /\ cstate[c] = "open"
  /\ cstate' = [cstate EXCEPT ![c] = "closed"]
  /\ UNCHANGED <<ckind, cpc, creq, cres, tc_result, nsent, sstate, rst, to_srv, to_cli, nclose, log>>
  /\ UNCHANGED <<srvvars, wrkvars, hvars>>

\* the peer aborts the connection: the server's next recv or send on it
\* raises ConnectionResetError
PeerReset(c) ==
  /\ ckind[c] = "peer"
  /\ cstate[c] = "open"
  /\ ~rst[c]
  /\ cstate' = [cstate EXCEPT ![c] = "closed"]
  /\ rst' = [rst EXCEPT ![c] = TRUE]
  /\ UNCHANGED <<ckind, cpc, creq, cres, tc_result, nsent, sstate, to_srv, to_cli, nclose, log>>
  /\ UNCHANGED <<srvvars, wrkvars, hvars>>

\* --------------------------------- create_sorting_handler, called directly

\* parse_function and sort_function as main.py passes them
parse_function(input_data) == parse_input(input_data)

sort_function(data) == sort_data(data)

\* Faulty variant of NoData: the handler without its "if not data" test
NeverNoData(data) == FALSE

\* not data
NoData(data) == data = <<>>

\* data = parse_function(input_data)
HParse ==
  /\ h_pc = "parse"
  /\ h_data' = parse_function(h_input)
  /\ h_pc' = "check"
  /\ UNCHANGED <<h_input, h_result, h_sort_called, netvars>>

\* if not data: return "Error: No valid data to sort"
HCheck ==
  /\ h_pc = "check"
  /\ IF NoData(h_data)
     THEN h_result' = NoValidData /\ h_pc' = "ret"
     ELSE h_result' = h_result /\ h_pc' = "sort"
  /\ UNCHANGED <<h_input, h_data, h_sort_called, netvars>>

\* sorted_data = sort_function(data); return ' '.join(map(str, sorted_data))
HSort ==
  /\ h_pc = "sort"
  /\ h_sort_called' = TRUE
  /\ h_result' = SortedResponse(sort_function(h_data))
  /\ h_pc' = "ret"
  /\ UNCHANGED <<h_input, h_data, netvars>>

\* ----------------------------------------------------- specifications

\* the handlers the repository installs: create_sorting_handler(sort_data,
\* parse_input) in main.py, echo_handler in run_test_server
MainHandlers == {"sort"}

TestHandlers == {"echo", "sort"}

ServerNext(handlers) ==
  \/ \E h \in handlers : SetClientHandler(h)
  \/ StartServer
  \/ BindListen
  \/ SetRunning
  \/ LoopTest
  \/ Accept
  \/ Interrupt
  \/ FinallyStop
  \/ ExternalStop

WorkerNext == \E w \in Workers : WTest(w) \/ WRecv(w) \/ WProcess(w) \/ WSend(w) \/ WClose(w)

WorkerRaise == \E w \in Workers : WRecvRaise(w) \/ WSendRaise(w)

ClientNext ==
  \/ \E c \in Conns : \E data \in ClientRequests : SdConnect(c, data)
  \/ \E c \in Conns : SdSend(c) \/ SdRecv(c) \/ SdClose(c)
  \/ \E c \in Conns : TestConnection(c)

PeerNext ==
  \/ \E c \in Conns : PeerConnect(c) \/ PeerClose(c) \/ PeerReset(c)
  \/ \E c \in Conns : \E frame \in PeerFrames : PeerSend(c, frame)

\* the one raising outcome a NetworkClient brings about: a recv on a
\* connection reset after the worker wrote to a client that had gone
WorkerReset == \E w \in Workers : WRecvReset(w)

\* The server of main.py (the sorting handler, or none installed) and
\* NetworkClient clients.  The other raising outcomes of the worker's recv
\* and send are left out of this next-state relation because no
\* NetworkClient enables them (NoRaiseWithClients).
Next == ServerNext(MainHandlers) \/ WorkerNext \/ WorkerReset \/ ClientNext

Spec == Init /\ [][Next]_vars

\* with NetworkClient clients a worker meets no undecodable bytes and no
\* reset at its send
NoRaiseWithClients == ~ENABLED (\E w \in Workers : WRecvUndecodable(w) \/ WSendRaise(w))

\* The server with any of its handlers and raw TCP peers
NextPeers == ServerNext(TestHandlers) \/ WorkerNext \/ WorkerRaise \/ PeerNext

SpecPeers == Init /\ [][NextPeers]_vars

\* accept() returning on its own: with a queued connection, or at once with
\* OSError on a socket already closed
AcceptReturns == Accept /\ (spc' = "loop" \/ server_socket = "closed")

\* the steps the thread that runs start_server() takes when it is scheduled
ServerThread == BindListen \/ SetRunning \/ LoopTest \/ AcceptReturns \/ FinallyStop

\* SpecPeers with the threads of the server scheduled: the thread in
\* start_server() and a thread in stop_server() go on whenever they can;
\* nothing is assumed of the peers
SpecPeersFair == SpecPeers /\ WF_vars(ServerThread) /\ WF_vars(ExternalStop)

\* one frame longer than the read buffer: a single token, the buffer limit
\* and six bytes more
RLong == [i \in 1..(RecvLimit + 6) |-> "a"]

LongFrames == {RLong, RInvalid}

LongPeerNext ==
  \/ \E c \in Conns : PeerConnect(c) \/ PeerClose(c) \/ PeerReset(c)
  \/ \E c \in Conns : \E frame \in LongFrames : PeerSend(c, frame)

NextLongFrame ==
  \/ StartServer
  \/ BindListen
  \/ SetRunning
  \/ LoopTest
  \/ Accept
  \/ Interrupt
  \/ FinallyStop
  \/ WorkerNext
  \/ WorkerRaise
  \/ LongPeerNext

\* The server as constructed (it echoes), stopped only by its own thread,
\* and a raw TCP peer whose frames exceed the read buffer
SpecLongFrame == Init /\ [][NextLongFrame]_vars

\* the frames of the peers of SpecTwoPeers: a request, whitespace alone,
\* bytes that are not UTF-8
FaultFrames == {R312, RBlank, RInvalid}

TwoPeersNext ==
  \/ \E c \in Conns : PeerConnectWithin(c, MaxConn) \/ PeerClose(c) \/ PeerReset(c)
  \/ \E c \in Conns : \E frame \in FaultFrames : PeerSend(c, frame)

NextTwoPeers ==
  \/ StartServer
  \/ BindListen
  \/ SetRunning
  \/ LoopTest
  \/ Accept
  \/ Interrupt
  \/ FinallyStop
  \/ WorkerNext
  \/ WorkerRaise
  \/ TwoPeersNext

\* The server as constructed (no handler installed: it echoes), stopped
\* only by its own thread, and two raw TCP peers connected at a time
SpecTwoPeers == Init /\ [][NextTwoPeers]_vars

\* the tokens of the inputs handed to the sorting handler directly
TokenPool ==
  { <<"3">>, <<"1", "0">>, <<"-", "2">>, <<"2", ".", "5">>, <<"1", ".", "0">>,
    <<"n", "a", "n">>, <<"b">>, <<"a", "b">> }

TokenSeqs == UNION {[1..n -> TokenPool] : n \in 0..MaxTokens}

RECURSIVE JoinTokens(_)
JoinTokens(toks) ==
  IF toks = <<>> THEN <<>>
  ELSE IF Len(toks) = 1 THEN toks[1]
  ELSE toks[1] \o <<" ">> \o JoinTokens(Tail(toks))

\* the tokens separated by single spaces, bare or padded with whitespace
HandlerInputs ==
  {JoinTokens(t) : t \in TokenSeqs} \cup {<<" ">> \o JoinTokens(t) \o <<"\n">> : t \in TokenSeqs}

HInit ==
  /\ NetInit
  /\ h_pc = "parse"
  /\ h_input \in HandlerInputs
  /\ h_data = <<>>
  /\ h_result = <<>>
  /\ h_sort_called = FALSE

HNext == HParse \/ HCheck \/ HSort

\* one direct call of the sorting handler on each input
SpecHandler == HInit /\ [][HNext]_vars

\* ---------------------------------------------------------- properties

Events(c, op) == SelectSeq(log[c], LAMBDA e : e.op = op)

\* the reads of a connection that gave the worker a request
Requests(c) == SelectSeq(log[c], LAMBDA e : e.op = "recv" /\ e.text # <<>>)

Owners(c) == {w \in Workers : wsock[w] = c}

IsPrefix(p, s) == Len(p) <= Len(s) /\ SubSeq(s, 1, Len(p)) = p

Contains(s, sub) == \E i \in 0..(Len(s) - Len(sub)) : SubSeq(s, i + 1, i + Len(sub)) = sub

E123 == << "1", " ", "2", " ", "3" >>

EApple == << "a", "p", "p", "l", "e", " ", "z", "e", "b", "r", "a" >>

\* C1, first part: each accepted socket has one worker, and only that worker
\* reads, runs the handler for, writes and closes it.
C1_OneOwner ==
  \A c \in Conns :
    /\ Cardinality(Owners(c)) <= 1
    /\ \A i \in 1..Len(log[c]) : log[c][i].w \in Owners(c)

\* C1, second part: the k-th response written on a connection is the
\* handler's result for the k-th request read from that connection, whose
\* bytes are the ones this connection's client sent.
C1_OwnResponses ==
  \A c \in Conns :
    LET reqs == Requests(c)
        sends == Events(c, "send")
    IN /\ Len(sends) <= Len(reqs)
       /\ \A k \in 1..Len(reqs) : reqs[k].bytes = creq[c]
       /\ \A k \in 1..Len(sends) : sends[k].text = HandlerResponse(reqs[k].text)

\* C1, third part: a client whose send_data returns a response gets the
\* result for its own data: "1 2 3" for "3 1 2", "apple zebra" for
\* "zebra apple" under the sorting handler.
C1_OwnResult ==
  \A c \in Conns :
    (ckind[c] = "send_data" /\ cpc[c] = "ret" /\ cres[c] # <<>>) =>
      /\ cres[c] = strip(HandlerResponse(strip(creq[c])))
      /\ (client_handler = "sort" /\ creq[c] = R312) => cres[c] = E123
      /\ (client_handler = "sort" /\ creq[c] = RZebra) => cres[c] = EApple

\* C1: for any interleaving of the workers of concurrently connected
\* clients, every response written on a connection is the handler's result
\* for a request read from that connection, and each accepted socket is
\* read, written and closed only by the worker spawned for it.
C1_NoCrossOver == C1_OneOwner /\ C1_OwnResponses /\ C1_OwnResult

\* two clients served at the same time, each holding its own sorted result
C1_Witness ==
  \E c1, c2 \in Conns :
    /\ creq[c1] = R312 /\ cres[c1] = E123 /\ cpc[c1] = "close"
    /\ creq[c2] = RZebra /\ cres[c2] = EApple /\ cpc[c2] = "close"
    /\ \A w \in Workers : wpc[w] = "recv"

StopCompleted == spc = "done" \/ xpc = "done"

Established(c) == sstate[c] \in {"backlog", "open"}

\* C2, first part: once a stop_server() call has completed, no connection is
\* established and no worker is spawned, and a send_data or test_connection
\* that starts then is refused.
C2_Refused ==
  [][StopCompleted =>
       /\ \A c \in Conns : Established(c)' => Established(c)
       /\ nworkers' = nworkers
       /\ \A c \in Conns :
            /\ (ckind[c] = "none" /\ ckind'[c] = "send_data") =>
                 /\ cpc'[c] = "except"
                 /\ cres'[c] = SendDataExcept("ConnectionRefusedError")
            /\ (ckind[c] = "none" /\ ckind'[c] = "probe") => tc_result'[c] = "False"]_vars

\* a step of stop_server(), in start_server's finally or called from outside
StopStep == (spc \in {"finally", "fclose"} /\ spc' # spc) \/ (xpc' # xpc)

\* C2, second part: stop_server() closes no accepted connection and moves
\* no worker.
C2_KeepsAccepted ==
  [][StopStep => /\ \A c \in Conns : sstate[c] = "open" => sstate'[c] = "open"
                 /\ nclose' = nclose
                 /\ wpc' = wpc]_vars

\* C2: after stop_server() completes every new connection attempt is
\* refused and spawns no worker, while stop_server() closes no connection
\* accepted before it.
C2_StopRefusesNew == C2_Refused /\ C2_KeepsAccepted

EchoBA == << "E", "c", "h", "o", ":", " ", "b", " ", "a", "\n" >>

\* C3: with the echo handler (echo_handler, or none installed), the bytes
\* written for a request are "Echo: ", the request without its leading and
\* trailing whitespace, and one newline.
C3_EchoResponse ==
  client_handler \in {"None", "echo"} =>
    \A c \in Conns :
      LET reqs == Requests(c)
          sends == Events(c, "send")
      IN \A k \in 1..Len(sends) :
           /\ sends[k].bytes = EchoPrefix \o strip(reqs[k].bytes) \o <<"\n">>
           /\ reqs[k].bytes = RPadded => sends[k].bytes = EchoBA

\* the echo of a request that had whitespace around it has been written
C3_Witness ==
  /\ client_handler = "echo"
  /\ \E c \in Conns : \E k \in 1..Len(log[c]) :
       /\ log[c][k].op = "send"
       /\ log[c][k].bytes = EchoBA

OnlyWhitespace(bytes) == bytes # <<>> /\ \A i \in 1..Len(bytes) : bytes[i] \in Whitespace

\* C4: after a read of nothing but whitespace the worker neither invokes
\* the handler nor writes: it is on its way to close the connection, and
\* the only thing it does on it afterwards is that close.
C4_BlankCloses ==
  \A c \in Conns : \A i \in 1..Len(log[c]) :
    (log[c][i].op = "recv" /\ OnlyWhitespace(log[c][i].bytes)) =>
      /\ \A j \in (i + 1)..Len(log[c]) : log[c][j].op = "close"
      /\ wpc[log[c][i].w] \in {"finally", "done"}

\* a served connection closed on a whitespace-only request
C4_Witness ==
  \E c \in Conns : \E i \in 1..Len(log[c]) :
    /\ log[c][i].op = "recv"
    /\ log[c][i].bytes = RBlank
    /\ i < Len(log[c])
    /\ log[c][i + 1].op = "close"
    /\ Events(c, "send") # <<>>

InLoop == {"test", "recv", "process", "send"}

\* C10: a worker has not closed its socket while it is in its loop (or on
\* its way out of it), has closed it exactly once when it has ended, and
\* has ended only through that close.
C10_ClosedOnce ==
  /\ \A w \in Workers :
       /\ wpc[w] \in InLoop \cup {"finally"} =>
            nclose[wsock[w]] = 0 /\ sstate[wsock[w]] = "open"
       /\ wpc[w] = "done" =>
            /\ nclose[wsock[w]] = 1
            /\ log[wsock[w]][Len(log[wsock[w]])].op = "close"
            /\ Len(Events(wsock[w], "close")) = 1
  /\ \A c \in Conns : nclose[c] > 0 => \E w \in Workers : wsock[w] = c /\ wpc[w] = "done"

\* a worker that left its loop on a reset connection has closed its socket
C10_Witness ==
  \E w \in Workers :
    /\ wpc[w] = "done"
    /\ Events(wsock[w], "reset") # <<>>
    /\ Events(wsock[w], "send") # <<>>
    /\ nclose[wsock[w]] = 1

SingleTag(vals) == vals # <<>> /\ \A i, j \in 1..Len(vals) : vals[i].tag = vals[j].tag

\* no item is smaller than one before it
NonDecreasing(vals) == \A i, j \in 1..Len(vals) : i < j => ~Less(vals[j], vals[i])

Count(vals, x) == Cardinality({i \in 1..Len(vals) : vals[i] = x})

IsPermutation(a, b) ==
  /\ Len(a) = Len(b)
  /\ \A i \in 1..Len(a) : Count(a, a[i]) = Count(b, a[i])

\* C5: for a request whose tokens all parse to one tag, the handler's
\* response, parsed again, is the parsed request sorted (a permutation of
\* it in non-decreasing order), and the handler returns its own output
\* unchanged.
C5_SortedRoundTrip ==
  (h_pc = "ret" /\ SingleTag(parse_input(h_input))) =>
    LET out == parse_input(h_result)
    IN /\ IsPermutation(out, parse_input(h_input))
       /\ NonDecreasing(out)
       /\ sorting_handler(h_result) = h_result

\* what the code does keep of C5: the same for the requests none of whose
\* tokens is a nan
C5_WithoutNaN ==
  (h_pc = "ret" /\ SingleTag(parse_input(h_input))
     /\ \A i \in 1..Len(parse_input(h_input)) : ~IsNaN(parse_input(h_input)[i])) =>
    LET out == parse_input(h_result)
    IN /\ IsPermutation(out, parse_input(h_input))
       /\ NonDecreasing(out)
       /\ sorting_handler(h_result) = h_result

ENoValidData ==
  << "E", "r", "r", "o", "r", ":", " ", "N", "o", " ", "v", "a", "l", "i", "d", " ",
     "d", "a", "t", "a", " ", "t", "o", " ", "s", "o", "r", "t" >>

\* C6: when parse_function returns no token for the input, the handler
\* returns "Error: No valid data to sort" and does not get to (and has not
\* made) its call of sort_function.
C6_NoValidData ==
  (h_pc \in {"sort", "ret"} /\ parse_function(h_input) = <<>>) =>
    /\ h_pc = "ret"
    /\ h_result = ENoValidData
    /\ ~h_sort_called

\* the handler has returned from an input of whitespace alone
C6_Witness ==
  /\ h_pc = "ret"
  /\ h_input = <<" ", "\n">>
  /\ h_result = ENoValidData

\* C7: a send_data that starts while nothing listens returns (it does not
\* raise) a string that contains "Cannot connect", and a test_connection
\* that starts then returns false.
C7_NoListener ==
  [][\A c \in Conns :
       (ckind[c] = "none" /\ ~Listening) =>
         /\ ckind'[c] = "send_data" =>
              /\ cpc'[c] \in {"ret", "except"}
              /\ cres'[c] # Raised
              /\ Contains(cres'[c], CannotConnectText)
         /\ ckind'[c] = "probe" => tc_result'[c] = "False"]_vars

\* with no server started, a client's probe returned false and its
\* send_data returned the "Cannot connect" error
C7_Witness ==
  /\ server_socket = "None"
  /\ ckind[1] = "probe" /\ tc_result[1] = "False"
  /\ ckind[2] = "send_data" /\ cpc[2] = "except"
  /\ Contains(cres[2], CannotConnectText)

\* C8: send_data never raises: whatever fault a step of it meets, the call
\* returns, from an except clause, a string that starts with "Error: " and
\* describes the fault.
C8_NeverRaises ==
  \A c \in Conns :
    ckind[c] = "send_data" =>
      /\ cres[c] # Raised
      /\ cpc[c] = "except" =>
           /\ IsPrefix(ErrorPrefix, cres[c])
           /\ Len(cres[c]) > Len(ErrorPrefix)

\* a reset met after the connection was made has been returned as a string
C8_Witness ==
  \E c \in Conns :
    /\ ckind[c] = "send_data"
    /\ cpc[c] = "except"
    /\ cres[c] = ErrorPrefix \o ResetText

\* C9: when send_data has returned, on any path, the socket it opened has
\* been closed.
C9_SocketClosed ==
  \A c \in Conns :
    (ckind[c] = "send_data" /\ cpc[c] \in {"ret", "except"}) => cstate[c] = "closed"

\* the reads that gave a request, the handler calls and the writes of a
\* connection, in the order they happened
Exchange(c) ==
  SelectSeq(log[c], LAMBDA e : (e.op = "recv" /\ e.text # <<>>) \/ e.op \in {"handler", "send"})

StepOf(i) == << "recv", "handler", "send" >>[((i - 1) % 3) + 1]

\* C11: on each connection the reads of a request, the handler calls and
\* the writes alternate in that order, so that the handler runs on the k-th
\* request only after the (k-1)-th response was written; each handler call
\* is on the request just read, and each response written is the handler's
\* result for it.
C11_InOrder ==
  \A c \in Conns :
    LET x == Exchange(c) IN
      \A i \in 1..Len(x) :
        /\ x[i].op = StepOf(i)
        /\ x[i].op = "handler" => x[i].text = x[i - 1].text
        /\ x[i].op = "send" => x[i].text = HandlerResponse(x[i - 2].text)

\* two different requests were read one after the other on one connection
\* and each was answered in turn
C11_Witness ==
  \E c \in Conns :
    LET x == Exchange(c) IN
      /\ Len(x) = 6
      /\ x[1].text # x[4].text
      /\ x[3].text # x[6].text

\* worker w leaves its loop from the read (empty frame, end of stream,
\* undecodable bytes, reset) or closes its socket afterwards
LeavesFromRead(w) ==
  \/ wpc[w] = "recv" /\ wpc'[w] = "finally"
  \/ wpc[w] = "finally" /\ wpc'[w] = "done"

\* C12: the steps by which a worker ends on a decode failure or an empty
\* frame change only that worker and its own connection: the running flag,
\* the listening socket, its queue and the accept loop's position are as
\* before, and so are every other worker and every other connection.
C12_FaultIsLocal ==
  [][\A w \in Workers :
       LeavesFromRead(w) =>
         /\ is_running' = is_running
         /\ server_socket' = server_socket
         /\ spc' = spc
         /\ backlog' = backlog
         /\ nworkers' = nworkers
         /\ \A v \in Workers \ {w} :
              wpc'[v] = wpc[v] /\ wsock'[v] = wsock[v] /\ wdata'[v] = wdata[v]
         /\ \A c \in Conns \ {wsock[w]} :
              /\ sstate'[c] = sstate[c]
              /\ nclose'[c] = nclose[c]
              /\ rst'[c] = rst[c]
              /\ to_srv'[c] = to_srv[c]
              /\ to_cli'[c] = to_cli[c]
              /\ log'[c] = log[c]]_vars

\* one worker has ended on undecodable bytes and closed its connection;
\* the server still runs and accepts, and the other worker is about to
\* answer a request on a connection that is open
C12_Witness ==
  \E w, v \in Workers :
    /\ wpc[w] = "done"
    /\ Events(wsock[w], "undecodable") # <<>>
    /\ sstate[wsock[w]] = "closed"
    /\ wpc[v] = "send"
    /\ sstate[wsock[v]] = "open"
    /\ is_running
    /\ Listening
    /\ spc = "accept"

\* the parsed request holds Values that sorted() cannot compare
MixedTags(text) == SortRaises(parse_input(text))

EMixed == << "b", " ", "3" >>

\* C13: when the request just answered mixes incomparable tags, the worker
\* has written the parsed tokens in their original order joined by single
\* spaces (no error string), and it goes on to the next turn of its loop
\* with its connection open.
C13_MixedUnchanged ==
  [][\A w \in Workers :
       (/\ wpc[w] = "send"
        /\ wpc'[w] # "send"
        /\ ~rst[wsock[w]]
        /\ client_handler = "sort"
        /\ MixedTags(wdata[w])) =>
         LET c == wsock[w]
             sent == log'[c][Len(log'[c])]
         IN /\ sent.op = "send"
            /\ sent.text = JoinStr(parse_input(wdata[w]))
            /\ wdata[w] = RMixed => sent.bytes = EMixed \o <<"\n">>
            /\ wpc'[w] = "test"
            /\ sstate'[c] = "open"
            /\ nclose'[c] = 0]_vars

\* a mixed request was answered with its tokens unsorted, and the same
\* connection then had a further request answered
C13_Witness ==
  /\ client_handler = "sort"
  /\ \E c \in Conns :
       LET x == Exchange(c) IN
         /\ Len(x) = 6
         /\ x[1].text = RMixed
         /\ x[3].text = EMixed
         /\ x[6].text = E123

NoneEstablished == \A c \in Conns : ~Established(c) /\ sstate[c] # "open"

\* C14: from a failed bind on, the socket is unbound until stop_server()
\* closes it; is_running stays false, start_server() is in its finally
\* clause or has returned (never in the accept loop), no connection is
\* established or accepted and no worker exists; and start_server() has
\* returned only with the socket closed.
C14_BindFails ==
  /\ [][(spc = "bind" /\ server_socket' = "unbound") =>
          spc' = "finally" /\ ~is_running']_vars
  /\ [][server_socket = "unbound" =>
          /\ server_socket' \in {"unbound", "closed"}
          /\ server_socket' = "closed" <=> spc' = "done"]_vars
  /\ [](server_socket = "unbound" =>
          /\ ~is_running
          /\ spc \in {"finally", "fclose"}
          /\ nworkers = 0
          /\ backlog = <<>>
          /\ NoneEstablished)
  /\ [][spc = "done" =>
          /\ ~is_running'
          /\ server_socket' = "closed"
          /\ nworkers' = nworkers
          /\ \A c \in Conns : Established(c)' => Established(c)]_vars

\* bind failed, the flag is cleared again and the socket is about to be
\* closed, while a client that tried to connect was refused
C14_Witness ==
  /\ server_socket = "unbound"
  /\ spc = "fclose"
  /\ ~is_running
  /\ ckind[1] = "send_data"
  /\ cres[1] = SendDataExcept("ConnectionRefusedError")

\* the positions a worker can move to from each position of its loop: one
\* handler call at most between two tests of the running flag
WorkerOrder(from) ==
  CASE from = "unborn" -> {"test"}
    [] from = "test" -> {"recv", "finally"}
    [] from = "recv" -> {"process", "finally"}
    [] from = "process" -> {"send"}
    [] from = "send" -> {"test", "finally"}
    [] from = "finally" -> {"done"}
    [] OTHER -> {}

LastEvent(c) == log[c][Len(log[c])]

\* C15: once the running flag is false it stays false for the workers that
\* exist; a worker that tests it then leaves its loop, and between two
\* tests a worker calls the handler once at most, so that it handles no
\* more than the request it was reading or handling when the flag was
\* cleared and then closes.  stop_server() moves no worker, and a worker
\* blocked in recv leaves it only on what its peer did: bytes that arrived,
\* the end of the stream, or a reset.
C15_OneMoreRequest ==
  /\ [][(~is_running /\ nworkers > 0) => ~is_running']_vars
  /\ [][\A w \in Workers :
          /\ wpc'[w] # wpc[w] => wpc'[w] \in WorkerOrder(wpc[w])
          /\ (~is_running /\ wpc[w] = "test" /\ wpc'[w] # "test") => wpc'[w] = "finally"
          /\ (wpc[w] = "recv" /\ wpc'[w] # "recv") =>
               /\ ~StopStep
               /\ Len(log'[wsock[w]]) = Len(log[wsock[w]]) + 1
               /\ LastEvent(wsock[w])'.op \in {"recv", "reset", "undecodable"}
               /\ LastEvent(wsock[w])'.op = "recv" =>
                    \/ to_srv[wsock[w]] # <<>>
                    \/ cstate[wsock[w]] = "closed"]_vars
  /\ [][StopStep => wpc' = wpc /\ nclose' = nclose]_vars

\* the server was stopped while a worker that had already answered a
\* request was reading; the worker has read one more request and is
\* handling it
C15_Witness ==
  /\ ~is_running
  /\ server_socket = "closed"
  /\ \E w \in Workers :
       /\ wpc[w] = "process"
       /\ Len(Events(wsock[w], "send")) = 1
       /\ sstate[wsock[w]] = "open"

Stopped == ~is_running /\ server_socket = "closed"

\* C16: once stop_server() has been called on a listening server,
\* start_server() eventually returns with the server stopped (is_running
\* false, the listening socket closed); it has returned only in that state,
\* also when accept itself raised; and no worker is spawned once the accept
\* loop has been left.
C16_StopReturns ==
  /\ (xpc # "idle") ~> (spc = "done" /\ Stopped)
  /\ [](spc = "done" => Stopped)
  /\ [][(spc \in {"finally", "fclose", "done"}) => (nworkers' = nworkers)]_vars

\* the reads a worker made on a connection, whatever they gave
Reads(c) == SelectSeq(log[c], LAMBDA e : e.op \in {"recv", "reset", "undecodable"})

\* C17: a worker that has left its loop (it is about to close its
\* connection, or has closed it) has made at least one read on it.
C17_ReadsFirst ==
  \A w \in Workers : wpc[w] \in {"finally", "done"} => Reads(wsock[w]) # <<>>

\* C18: on a connection whose peer has written one frame (the only frame
\* with a request in it is the one longer than the read buffer), the
\* handler is invoked once at most, on the first buffer-limit bytes, one
\* response at most is written, and no read gives the worker the excess
\* bytes as a request.
C18_Truncated ==
  \A c \in Conns :
    (ckind[c] = "peer" /\ nsent[c] = 1) =>
      /\ Len(Events(c, "handler")) <= 1
      /\ Len(Events(c, "send")) <= 1
      /\ \A k \in 1..Len(Requests(c)) : Requests(c)[k].bytes = RecvBytes(RLong)

\* C19: whenever is_running is true, the listening socket exists, is bound
\* and listening, and has not been closed.
C19_RunningListens == is_running => server_socket = "listening"

\* C20: a send_data whose read has returned (no exception) on a
\* connection that the server closed without writing anything returns the
\* empty string, which is no failure description.
C20_EmptyResult ==
  \A c \in Conns :
    (/\ ckind[c] = "send_data"
     /\ cpc[c] \in {"close", "ret"}
     /\ sstate[c] = "closed"
     /\ Events(c, "send") = <<>>) =>
      /\ cres[c] = <<>>
      /\ ~IsPrefix(ErrorPrefix, cres[c])

\* send_data has returned the empty string in both cases: for a
\* whitespace-only request, and on a connection whose worker found
\* is_running false before its first read
C20_Witness ==
  \E c, d \in Conns :
    /\ cpc[c] = "ret" /\ cres[c] = <<>> /\ creq[c] = RBlank
    /\ Reads(c) # <<>>
    /\ cpc[d] = "ret" /\ cres[d] = <<>> /\ ckind[d] = "send_data"
    /\ Reads(d) = <<>>
    /\ nclose[d] = 1

====
